---- MODULE Spec2Model ----
(***************************************************************************)
(* Model of feature2markdown.js (the span-tag variant, its main and the    *)
(* loading of its module, the badge-URL variant with validateArgs, and the *)
(* bdd-badge variant), of the two text filters                             *)
(* filterOutComments and fixTableFormatting, and of                        *)
(* fix-feature-references.js.  JavaScript strings are TLA+ strings; the    *)
(* operators \o, Len and SubSeq act on them character by character.        *)
(***************************************************************************)
EXTENDS Integers, Sequences, FiniteSets, TLC

VARIABLES
  featureName,          \* getBadgeTag: first argument
  scenarioName,         \* getBadgeTag: second argument
  scenarioOutlineName,  \* getBadgeTag: third argument
  tagResult,            \* getBadgeTag: what the call returned
  featurePath,          \* convertFeatureToMarkdown: its argument
  parsed,               \* what parser.parse gives for the file at featurePath
  gherkinDocument,      \* the document after the annotation step
  written,              \* the fs.writeFileSync calls that succeeded, in order
  convState,            \* "ready", "done" or the exception that escaped
  markdown,             \* what pretty(gherkinDocument, 'markdown') returns
  reads,                \* the paths handed to fs.readFileSync, in order
  disk,                 \* the files under process.cwd(), in readdir order
  featureFiles,         \* main: what findFeatureFiles returned
  nextFile,             \* main: index of the next element of the forEach
  mainState,            \* main: where the program stands
  argv2,                \* process.argv[2]
  exitCode,             \* -1 while the process runs, then its exit status
  stderr,               \* console.error lines
  filtered,             \* the rendered text after the passes made so far
  passes,               \* the names of the passes made so far, in order
  mdPath,               \* replaceFeatureReferences: its argument
  mdContent,            \* content of the file at mdPath, on disk
  mdOriginal,           \* content of that file before the first run
  mdWrites,             \* number of fs.writeFileSync calls on that file
  mdRuns,               \* number of replaceFeatureReferences calls so far
  warnings,             \* console.warn lines
  stdout                \* console.log lines

vars == <<featureName, scenarioName, scenarioOutlineName, tagResult,
          featurePath, parsed, gherkinDocument, written, convState,
          markdown, reads, disk, featureFiles, nextFile, mainState,
          argv2, exitCode, stderr, filtered, passes,
          mdPath, mdContent, mdOriginal, mdWrites, mdRuns, warnings, stdout>>

tagVars == <<featureName, scenarioName, scenarioOutlineName, tagResult>>
convVars == <<featurePath, parsed, gherkinDocument, written, convState,
             markdown, reads>>
mainVars == <<disk, featureFiles, nextFile, mainState, argv2, exitCode, stderr>>
filterVars == <<filtered, passes>>
mdVars == <<mdPath, mdContent, mdOriginal, mdWrites, mdRuns>>

-----------------------------------------------------------------------------
(* Bounds of the model *)

MaxNameLen == 2
MaxChildren == 2
MaxRuleChildren == 1
MaxPieces == 3
MaxRuns == 2
MaxLines == 3
MaxFiles == 2
MaxPasses == 2

-----------------------------------------------------------------------------
(* JavaScript values and strings *)

Str(s) == [t |-> "string", s |-> s]
null == [t |-> "null", s |-> "null"]
undefined == [t |-> "undefined", s |-> "undefined"]

\* !v for a value that is a string, null or undefined
Falsy(v) == v.t # "string" \/ v.s = ""

CharAt(s, i) == SubSeq(s, i, i)

\* s.includes(p)
Contains(s, p) ==
  \E i \in 1..(Len(s) - Len(p) + 1) : SubSeq(s, i, i + Len(p) - 1) = p

\* s.startsWith(p, i - 1), positions counted from 1
StartsAt(s, i, p) ==
  i + Len(p) - 1 <= Len(s) /\ SubSeq(s, i, i + Len(p) - 1) = p

EndsWith(s, p) ==
  Len(p) <= Len(s) /\ SubSeq(s, Len(s) - Len(p) + 1, Len(s)) = p

\* the characters \s matches (those the model's inputs use)
WhiteSpace == {" ", "\t", "\n", "\r"}

\* the characters \w matches
WordChars ==
  {"a", "b", "c", "d", "e", "f", "g", "h", "i", "j", "k", "l", "m",
   "n", "o", "p", "q", "r", "s", "t", "u", "v", "w", "x", "y", "z",
   "A", "B", "C", "D", "E", "F", "G", "H", "I", "J", "K", "L", "M",
   "N", "O", "P", "Q", "R", "S", "T", "U", "V", "W", "X", "Y", "Z",
   "0", "1", "2", "3", "4", "5", "6", "7", "8", "9", "_"}

RECURSIVE TrimStart(_)
TrimStart(s) ==
  IF s # "" /\ CharAt(s, 1) \in WhiteSpace THEN TrimStart(Tail(s)) ELSE s

RECURSIVE TrimEnd(_)
TrimEnd(s) ==
  IF s # "" /\ CharAt(s, Len(s)) \in WhiteSpace
  THEN TrimEnd(SubSeq(s, 1, Len(s) - 1))
  ELSE s

\* String.prototype.trim
Trim(s) == TrimEnd(TrimStart(s))

Min(S) == CHOOSE x \in S : \A y \in S : x <= y

-----------------------------------------------------------------------------
(* getBadgeTag: the tag it returns and the warning it logs *)

FeatureNameRequired == "Feature name is required for badge generation."

\* the scenario tag is an empty element, its name only in the attribute
getBadgeTag_EmptySpan(f, s, o) ==
  IF Falsy(f)
  THEN [value |-> "", warn |-> <<FeatureNameRequired>>]
  ELSE IF ~Falsy(s)
  THEN [value |-> "<span class=\"bdd-badge-scenario\" data-feature=\""
                    \o f.s \o "\" data-scenario=\"" \o s.s \o "\">"
                    \o "</span>",
        warn |-> <<>>]
  ELSE IF ~Falsy(o)
  THEN [value |-> "<span class=\"bdd-badge-scenario-outline\" data-feature=\""
                    \o f.s \o "\" data-scenario-outline=\"" \o o.s \o "\">"
                    \o o.s \o "</span>",
        warn |-> <<>>]
  ELSE [value |-> "<span class=\"bdd-badge-feature\" data-feature=\""
                    \o f.s \o "\">" \o f.s \o "</span>",
        warn |-> <<>>]

\* the outline tag carries its name in a data-scenario attribute
getBadgeTag_OutlineAsScenarioAttr(f, s, o) ==
  IF Falsy(f)
  THEN [value |-> "", warn |-> <<FeatureNameRequired>>]
  ELSE IF ~Falsy(s)
  THEN [value |-> "<span class=\"bdd-badge-scenario\" data-feature=\""
                    \o f.s \o "\" data-scenario=\"" \o s.s \o "\">"
                    \o s.s \o "</span>",
        warn |-> <<>>]
  ELSE IF ~Falsy(o)
  THEN [value |-> "<span class=\"bdd-badge-scenario-outline\" data-feature=\""
                    \o f.s \o "\" data-scenario=\"" \o o.s \o "\">"
                    \o o.s \o "</span>",
        warn |-> <<>>]
  ELSE [value |-> "<span class=\"bdd-badge-feature\" data-feature=\""
                    \o f.s \o "\">" \o f.s \o "</span>",
        warn |-> <<>>]

\* the feature name is checked only when no scenario name is given
getBadgeTag_GuardAfterScenario(f, s, o) ==
  IF ~Falsy(s)
  THEN [value |-> "<span class=\"bdd-badge-scenario\" data-feature=\""
                    \o f.s \o "\" data-scenario=\"" \o s.s \o "\">"
                    \o s.s \o "</span>",
        warn |-> <<>>]
  ELSE IF Falsy(f)
  THEN [value |-> "", warn |-> <<FeatureNameRequired>>]
  ELSE IF ~Falsy(o)
  THEN [value |-> "<span class=\"bdd-badge-scenario-outline\" data-feature=\""
                    \o f.s \o "\" data-scenario-outline=\"" \o o.s \o "\">"
                    \o o.s \o "</span>",
        warn |-> <<>>]
  ELSE [value |-> "<span class=\"bdd-badge-feature\" data-feature=\""
                    \o f.s \o "\">" \o f.s \o "</span>",
        warn |-> <<>>]

getBadgeTag(f, s, o) ==
  IF Falsy(f)
  THEN [value |-> "", warn |-> <<FeatureNameRequired>>]
  ELSE IF ~Falsy(s)
  THEN [value |-> "<span class=\"bdd-badge-scenario\" data-feature=\""
                    \o f.s \o "\" data-scenario=\"" \o s.s \o "\">"
                    \o s.s \o "</span>",
        warn |-> <<>>]
  ELSE IF ~Falsy(o)
  THEN [value |-> "<span class=\"bdd-badge-scenario-outline\" data-feature=\""
                    \o f.s \o "\" data-scenario-outline=\"" \o o.s \o "\">"
                    \o o.s \o "</span>",
        warn |-> <<>>]
  ELSE [value |-> "<span class=\"bdd-badge-feature\" data-feature=\""
                    \o f.s \o "\">" \o f.s \o "</span>",
        warn |-> <<>>]

-----------------------------------------------------------------------------
(* Inputs of getBadgeTag *)

NameChars == {"a", "\"", "<"}

RECURSIVE StringsUpTo(_)
StringsUpTo(n) ==
  IF n = 0 THEN {""}
  ELSE LET shorter == StringsUpTo(n - 1)
       IN  shorter \cup {s \o c : s \in shorter, c \in NameChars}

\* names that carry the text of an attribute, and the names of the tests
SpecialNames ==
  {"data-scenario", "x data-scenario=", "data-scenario-outline",
   "My Feature! @#$%^&*()", "Test Scenario: With Special Characters"}

Names == StringsUpTo(MaxNameLen) \cup SpecialNames

JsValues == {null, undefined} \cup {Str(n) : n \in Names}

NoResult == [called |-> FALSE, value |-> "", threw |-> FALSE]

IdleConv ==
  /\ featurePath = ""
  /\ parsed = [kind |-> "none"]
  /\ gherkinDocument = [kind |-> "none"]
  /\ written = <<>>
  /\ convState = "idle"
  /\ markdown = ""
  /\ reads = <<>>

IdleFilter ==
  /\ filtered = ""
  /\ passes = <<>>

IdleMain ==
  /\ disk = <<>>
  /\ featureFiles = <<>>
  /\ nextFile = 0
  /\ mainState = "idle"
  /\ argv2 = undefined
  /\ exitCode = -1
  /\ stderr = <<>>

IdleMd ==
  /\ mdPath = ""
  /\ mdContent = ""
  /\ mdOriginal = ""
  /\ mdWrites = 0
  /\ mdRuns = 0

IdleTag ==
  /\ featureName = undefined
  /\ scenarioName = undefined
  /\ scenarioOutlineName = undefined
  /\ tagResult = NoResult

InitTag ==
  /\ featureName \in JsValues
  /\ scenarioName \in JsValues
  /\ scenarioOutlineName \in JsValues
  /\ tagResult = NoResult
  /\ warnings = <<>>
  /\ stdout = <<>>
  /\ IdleConv
  /\ IdleMd
  /\ IdleFilter
  /\ IdleMain

\* one call getBadgeTag(featureName, scenarioName, scenarioOutlineName)
CallGetBadgeTag ==
  /\ ~tagResult.called
  /\ LET r == getBadgeTag(featureName, scenarioName, scenarioOutlineName)
     IN  /\ tagResult' = [called |-> TRUE, value |-> r.value, threw |-> FALSE]
         /\ warnings' = warnings \o r.warn
  /\ UNCHANGED <<featureName, scenarioName, scenarioOutlineName, stdout>>
  /\ UNCHANGED convVars
  /\ UNCHANGED mdVars
  /\ UNCHANGED filterVars
  /\ UNCHANGED mainVars

NextTag == CallGetBadgeTag

SpecTag == InitTag /\ [][NextTag]_vars

-----------------------------------------------------------------------------
(* The Gherkin document: gherkinDocument.feature and its children.  A child *)
(* is { scenario }, { rule } or { background }; kind says which field it    *)
(* has and node is that field.                                              *)

RECURSIVE Concat(_)
\* the lines of a sequence of line sequences, in order
Concat(ss) == IF ss = <<>> THEN <<>> ELSE Head(ss) \o Concat(Tail(ss))

\* handleScenarioOutline(scenario, featureName): the tag it returns and the
\* lines it logs; it reads the example tables and changes nothing
handleScenarioOutline(scenario, fName) ==
  LET tag == getBadgeTag(Str(fName), null, Str(scenario.name))
      tables == scenario.examples
  IN  [value |-> tag.value,
       warn |-> tag.warn,
       log |-> <<"Processing Scenario Outline: " \o scenario.name>>
               \o (IF Len(tables) > 0
                   THEN <<"  Found " \o ToString(Len(tables))
                            \o " examples table(s)">>
                        \o [k \in 1..Len(tables) |->
                              "  Examples table " \o ToString(k) \o " has "
                              \o ToString(Len(tables[k].tableBody))
                              \o " data rows"]
                   ELSE <<>>)]

\* a child that holds a scenario, directly under the feature
annotateChildScenario(child, fName) ==
  IF child.node.keyword # "" /\ Trim(child.node.keyword) = "Scenario Outline"
  THEN LET h == handleScenarioOutline(child.node, fName)
       IN  [child |-> [child EXCEPT !.node.name = h.value],
            warn |-> h.warn,
            log |-> <<"Adding badge to scenario outline: " \o child.node.name>>
                    \o h.log]
  ELSE LET tag == getBadgeTag(Str(fName), Str(child.node.name), undefined)
       IN  [child |-> [child EXCEPT !.node.name = tag.value],
            warn |-> tag.warn,
            log |-> <<"Adding badge to scenario: " \o child.node.name>>]

\* every scenario under a rule gets the scenario tag, whatever its keyword
annotateScenarioUnderRule_NoKeywordCheck(child, fName) ==
  IF child.kind = "scenario"
  THEN LET tag == getBadgeTag(Str(fName), Str(child.node.name), undefined)
       IN  [child |-> [child EXCEPT !.node.name = tag.value],
            warn |-> tag.warn,
            log |-> <<"  Adding badge to scenario: " \o child.node.name>>]
  ELSE [child |-> child, warn |-> <<>>, log |-> <<>>]

\* one child of a rule
annotateScenarioUnderRule(child, fName) ==
  IF child.kind = "scenario"
  THEN IF child.node.keyword # ""
          /\ Trim(child.node.keyword) = "Scenario Outline"
       THEN LET h == handleScenarioOutline(child.node, fName)
            IN  [child |-> [child EXCEPT !.node.name = h.value],
                 warn |-> h.warn,
                 log |-> <<"  Adding badge to scenario outline: "
                             \o child.node.name>> \o h.log]
       ELSE LET tag == getBadgeTag(Str(fName), Str(child.node.name), undefined)
            IN  [child |-> [child EXCEPT !.node.name = tag.value],
                 warn |-> tag.warn,
                 log |-> <<"  Adding badge to scenario: "
                             \o child.node.name>>]
  ELSE IF child.kind = "scenarioOutline"
  THEN LET h == handleScenarioOutline(child.node, fName)
       IN  [child |-> [child EXCEPT !.node.name = h.value],
            warn |-> h.warn,
            log |-> <<"  Adding badge to scenario outline: "
                        \o child.node.name>> \o h.log]
  ELSE [child |-> child, warn |-> <<>>, log |-> <<>>]

\* the rule's own name is tagged as well
annotateRule_TagsRuleName(child, fName) ==
  LET kids == [j \in 1..Len(child.node.children) |->
                 annotateScenarioUnderRule(child.node.children[j], fName)]
  IN  [child |-> [child EXCEPT
                    !.node.name =
                       getBadgeTag(Str(fName), Str(child.node.name),
                                   undefined).value,
                    !.node.children =
                       [j \in 1..Len(kids) |-> kids[j].child]],
       warn |-> Concat([j \in 1..Len(kids) |-> kids[j].warn]),
       log |-> <<"Processing scenarios under rule: " \o child.node.name>>
               \o Concat([j \in 1..Len(kids) |-> kids[j].log])]

\* a child that holds a rule: the loop over the rule's children
annotateRule(child, fName) ==
  LET kids == [j \in 1..Len(child.node.children) |->
                 annotateScenarioUnderRule(child.node.children[j], fName)]
  IN  [child |-> [child EXCEPT
                    !.node.children =
                       [j \in 1..Len(kids) |-> kids[j].child]],
       warn |-> Concat([j \in 1..Len(kids) |-> kids[j].warn]),
       log |-> <<"Processing scenarios under rule: " \o child.node.name>>
               \o Concat([j \in 1..Len(kids) |-> kids[j].log])]

\* one turn of the loop over gherkinDocument.feature.children
annotateChild(child, fName) ==
  IF child.kind = "scenario" THEN annotateChildScenario(child, fName)
  ELSE IF child.kind = "scenarioOutline"
  THEN LET h == handleScenarioOutline(child.node, fName)
       IN  [child |-> [child EXCEPT !.node.name = h.value],
            warn |-> h.warn,
            log |-> <<"Adding badge to scenario outline: "
                        \o child.node.name>> \o h.log]
  ELSE IF child.kind = "rule" THEN annotateRule(child, fName)
  ELSE [child |-> child, warn |-> <<>>, log |-> <<>>]

\* An annotation step that reads gherkinDocument.feature.name each time it
\* tags a child, after the feature name has been overwritten.
Annotate_ReadsNameAfterOverwrite(feature) ==
  LET ftag == getBadgeTag(Str(feature.name), null, undefined)
      fName == ftag.value
      kids == [i \in 1..Len(feature.children) |->
                 annotateChild(feature.children[i], fName)]
  IN  [feature |-> [feature EXCEPT
                      !.name = ftag.value,
                      !.children = [i \in 1..Len(kids) |-> kids[i].child]],
       warn |-> ftag.warn \o Concat([i \in 1..Len(kids) |-> kids[i].warn]),
       log |-> Concat([i \in 1..Len(kids) |-> kids[i].log])]

\* the annotation step: the feature name is read once, the feature is tagged,
\* then every child in document order
Annotate(feature) ==
  LET fName == feature.name
      ftag == getBadgeTag(Str(fName), null, undefined)
      kids == [i \in 1..Len(feature.children) |->
                 annotateChild(feature.children[i], fName)]
  IN  [feature |-> [feature EXCEPT
                      !.name = ftag.value,
                      !.children = [i \in 1..Len(kids) |-> kids[i].child]],
       warn |-> ftag.warn \o Concat([i \in 1..Len(kids) |-> kids[i].warn]),
       log |-> Concat([i \in 1..Len(kids) |-> kids[i].log])]

-----------------------------------------------------------------------------
(* Paths *)

\* the first index at which p occurs in s, 0 when it does not
IndexOf(s, p) ==
  LET at == {i \in 1..(Len(s) - Len(p) + 1) : StartsAt(s, i, p)}
  IN  IF at = {} THEN 0 ELSE Min(at)

\* featurePath.replace(/\.feature/, '.generated.md'): the first occurrence
outPathOf(path) ==
  LET i == IndexOf(path, ".feature")
  IN  IF i = 0 THEN path
      ELSE SubSeq(path, 1, i - 1) \o ".generated.md"
           \o SubSeq(path, i + Len(".feature"), Len(path))

\* path.dirname for an absolute path
Dirname(path) ==
  LET slashes == {i \in 1..Len(path) : CharAt(path, i) = "/"}
      last == CHOOSE i \in slashes : \A j \in slashes : j <= i
  IN  IF last = 1 THEN "/" ELSE SubSeq(path, 1, last - 1)

latestBuildBadge ==
  "<p style=\"text-align:right\"><span class=\"bdd-badge-latestbuild-tooltip\">"
  \o "<span class=\"bdd-badge-latestbuild\"></span></span></p>\n"

-----------------------------------------------------------------------------
(* convertFeatureToMarkdown(featurePath) *)

\* A convertFeatureToMarkdown that creates its output file before it reads
\* and parses the feature file, and so leaves an empty file behind when
\* reading or parsing fails.
convertFeatureToMarkdown_CreatesFileFirst ==
  /\ convState = "ready"
  /\ reads' = Append(reads, featurePath)
  /\ LET start == <<"Processing: " \o featurePath>>
         outPath == outPathOf(featurePath)
         created == [path |-> outPath, data |-> "", prefix |-> "",
                     document |-> [kind |-> "none"]]
     IN  IF parsed.kind \in {"IOError", "ParseError", "empty"}
         THEN /\ convState' = IF parsed.kind = "empty" THEN "TypeError"
                              ELSE parsed.kind
              /\ stdout' = stdout \o start
              /\ written' = Append(written, created)
              /\ UNCHANGED <<gherkinDocument, warnings>>
         ELSE LET a == Annotate(parsed.feature)
              IN  /\ gherkinDocument' = [kind |-> "doc", feature |-> a.feature]
                  /\ warnings' = warnings \o a.warn
                  /\ written' =
                       Append(written,
                              [path |-> outPath,
                               data |-> latestBuildBadge \o markdown,
                               prefix |-> latestBuildBadge,
                               document |-> a.feature])
                  /\ convState' = "done"
                  /\ stdout' = stdout \o start \o a.log
  /\ UNCHANGED <<featurePath, parsed, markdown>>
  /\ UNCHANGED tagVars
  /\ UNCHANGED mdVars
  /\ UNCHANGED filterVars
  /\ UNCHANGED mainVars

\* The markdown text comes from pretty() of @cucumber/gherkin-utils, a
\* library: markdown is the text it returns.  A write is recorded with its
\* path, its data, the prefix of the data and the document handed to
\* pretty().  fs.readFileSync throws when the file cannot be read.  The
\* directory of a file that findFeatureFiles found exists; any other
\* directory may or may not exist, and fs.writeFileSync throws ENOENT when
\* it does not.
convertFeatureToMarkdown ==
  /\ convState = "ready"
  /\ reads' = Append(reads, featurePath)
  /\ LET start == <<"Processing: " \o featurePath>>
     IN  IF parsed.kind = "IOError"
         THEN /\ convState' = "IOError"
              /\ stdout' = stdout \o start
              /\ UNCHANGED <<gherkinDocument, written, warnings>>
         ELSE IF parsed.kind = "ParseError"
         THEN /\ convState' = "ParseError"
              /\ stdout' = stdout \o start
              /\ UNCHANGED <<gherkinDocument, written, warnings>>
         ELSE IF parsed.kind = "empty"
         THEN /\ convState' = "TypeError"
              /\ stdout' = stdout \o start
              /\ UNCHANGED <<gherkinDocument, written, warnings>>
         ELSE LET a == Annotate(parsed.feature)
                  items == <<"# items in feature: "
                               \o ToString(Len(parsed.feature.children))>>
                  outPath == outPathOf(featurePath)
              IN  /\ gherkinDocument' = [kind |-> "doc", feature |-> a.feature]
                  /\ warnings' = warnings \o a.warn
                  /\ \E dirExists \in
                          (IF Dirname(outPath) = Dirname(featurePath)
                           THEN {TRUE} ELSE BOOLEAN) :
                       IF dirExists
                       THEN /\ written' =
                                 Append(written,
                                        [path |-> outPath,
                                         data |-> latestBuildBadge \o markdown,
                                         prefix |-> latestBuildBadge,
                                         document |-> a.feature])
                            /\ convState' = "done"
                            /\ stdout' = stdout \o start \o items \o a.log
                                 \o <<"Converted and stored as: " \o outPath>>
                       ELSE /\ written' = written
                            /\ convState' = "ENOENT"
                            /\ stdout' = stdout \o start \o items \o a.log
  /\ UNCHANGED <<featurePath, parsed, markdown>>
  /\ UNCHANGED tagVars
  /\ UNCHANGED mdVars
  /\ UNCHANGED filterVars
  /\ UNCHANGED mainVars

-----------------------------------------------------------------------------
(* Inputs of convertFeatureToMarkdown *)

FeatureNames == {"", "F"}
ScenarioNames == {"", "S"}
ScenarioKeywords == {"Scenario", "Scenario Outline"}

SomeSteps == <<[keyword |-> "Given ", text |-> "I have <count> items"]>>

SomeExamples ==
  <<[keyword |-> "Examples", name |-> "",
     tableHeader |-> [cells |-> <<"count", "more">>],
     tableBody |-> <<[cells |-> <<"1", "2">>], [cells |-> <<"5", "3">>]>>]>>

\* the parser gives a Scenario Outline its example tables
ScenarioChildren ==
  {[kind |-> "scenario",
    node |-> [keyword |-> k, name |-> n, description |-> "",
              steps |-> SomeSteps,
              examples |-> IF k = "Scenario Outline"
                           THEN SomeExamples ELSE <<>>]] :
     k \in ScenarioKeywords, n \in ScenarioNames}

BackgroundChild ==
  [kind |-> "background",
   node |-> [keyword |-> "Background", name |-> "", description |-> "",
             steps |-> SomeSteps]]

RECURSIVE SeqsUpTo(_, _)
\* the sequences over S of length at most n
SeqsUpTo(S, n) ==
  IF n = 0 THEN {<<>>}
  ELSE LET shorter == SeqsUpTo(S, n - 1)
       IN  shorter \cup {Append(q, x) : q \in shorter, x \in S}

RuleChildren ==
  {[kind |-> "rule",
    node |-> [keyword |-> "Rule", name |-> "R", description |-> "",
              children |-> c]] :
     c \in SeqsUpTo(ScenarioChildren \cup {BackgroundChild}, MaxRuleChildren)}

FeatureChildren == ScenarioChildren \cup {BackgroundChild} \cup RuleChildren

Features ==
  {[keyword |-> "Feature", name |-> n, description |-> "", children |-> c] :
     n \in FeatureNames, c \in SeqsUpTo(FeatureChildren, MaxChildren)}

\* fs.readFileSync and parser.parse: a document with a feature, a document
\* without one (a file with no Feature), a thrown parse error, or a file
\* that cannot be read
ParseOutcomes ==
  {[kind |-> "doc", feature |-> f] : f \in Features}
  \cup {[kind |-> "empty"], [kind |-> "ParseError"], [kind |-> "IOError"]}

PlainPath == "/docs/login.feature"

FeaturePaths ==
  {PlainPath, "/my docs/login.feature", "/docs/.feature",
   "/v1.features/login.feature", "/a.feature.md/x.feature",
   "/docs/login.feature-v2.feature", "/docs/a.feature.feature"}

SimpleDoc ==
  [kind |-> "doc",
   feature |-> [keyword |-> "Feature", name |-> "F", description |-> "",
                children |-> <<>>]]

\* Lines of a rendered document: headings, Gherkin comments (which the
\* parser keeps beside the feature tree and pretty() prints), a step with
\* pipes in its text, table rows, a blank line
MdLines ==
  {"# Feature: F", "## Scenario: S", "#### Sub", "# note", "  # note",
   "* Given \"x|y\"", "  | a | b |", "| c |", ""}

RECURSIVE LinesUpTo(_)
\* the texts of at most n lines, joined by newlines
LinesUpTo(n) ==
  IF n = 0 THEN {}
  ELSE IF n = 1 THEN MdLines
  ELSE LET shorter == LinesUpTo(n - 1)
       IN  shorter \cup {t \o "\n" \o l : t \in shorter, l \in MdLines}

MarkdownTexts == LinesUpTo(MaxLines)

PlainMarkdown == "# Feature: F\n"

InitConv ==
  /\ \/ /\ featurePath = PlainPath
        /\ parsed \in ParseOutcomes
        /\ markdown = PlainMarkdown
     \/ /\ featurePath \in FeaturePaths
        /\ parsed = SimpleDoc
        /\ markdown = PlainMarkdown
     \/ /\ featurePath = PlainPath
        /\ parsed = SimpleDoc
        /\ markdown \in MarkdownTexts
  /\ gherkinDocument = [kind |-> "none"]
  /\ written = <<>>
  /\ reads = <<>>
  /\ convState = "ready"
  /\ warnings = <<>>
  /\ stdout = <<>>
  /\ IdleTag
  /\ IdleMd
  /\ IdleFilter
  /\ IdleMain

NextConv == convertFeatureToMarkdown

SpecConv == InitConv /\ [][NextConv]_vars

-----------------------------------------------------------------------------
(* replaceFeatureReferences(filePath), of fix-feature-references.js:        *)
(* content.replace(/(\S+?\.feature)(?!\.(?:md|yml|yaml)\b)/g, ...)          *)

\* the lookahead \.(?:md|yml|yaml)\b matches at position q
ExtensionFollows(content, q) ==
  \E ext \in {".md", ".yml", ".yaml"} :
    /\ StartsAt(content, q, ext)
    /\ \/ q + Len(ext) > Len(content)
       \/ CharAt(content, q + Len(ext)) \notin WordChars

RECURSIVE Extend(_, _)
\* \S+? has taken the characters up to e - 1: the match ends in the
\* `.feature` at e when one stands there and the lookahead lets it pass,
\* else \S+? takes the character at e as well.  0: no match.
Extend(content, e) ==
  IF e > Len(content) \/ CharAt(content, e - 1) \in WhiteSpace THEN 0
  ELSE IF /\ StartsAt(content, e, ".feature")
          /\ ~ExtensionFollows(content, e + Len(".feature"))
  THEN e
  ELSE Extend(content, e + 1)

\* The regular expression tried at position s: the position of the
\* `.feature` its match ends in, or 0 when there is no match at s.
MatchFrom(content, s) == Extend(content, s + 1)

\* the callback: match.replace(/\.feature$/, '.generated.md')
replaceMatch(match) ==
  IF EndsWith(match, ".feature")
  THEN SubSeq(match, 1, Len(match) - Len(".feature")) \o ".generated.md"
  ELSE match

RECURSIVE LeftmostMatch(_, _)
\* the first position from s on at which the regular expression matches,
\* 0 when it matches nowhere
LeftmostMatch(content, s) ==
  IF s > Len(content) THEN 0
  ELSE IF MatchFrom(content, s) # 0 THEN s
  ELSE LeftmostMatch(content, s + 1)

RECURSIVE ReplaceFrom(_, _)
\* The global replace from position i on: the leftmost match, its
\* replacement, then the search goes on behind the match.
ReplaceFrom(content, i) ==
  LET s == LeftmostMatch(content, i)
  IN  IF s = 0 THEN SubSeq(content, i, Len(content))
      ELSE LET e == MatchFrom(content, s)
               behind == e + Len(".feature")
           IN  SubSeq(content, i, s - 1)
               \o replaceMatch(SubSeq(content, s, behind - 1))
               \o ReplaceFrom(content, behind)

\* what content.replace(...) returns
replaceAll(content) == ReplaceFrom(content, 1)

\* A replaceFeatureReferences that writes the file back and logs without
\* comparing the new content with the content it read.
replaceFeatureReferences_AlwaysWrites ==
  /\ mdRuns < MaxRuns
  /\ LET content == mdContent
         replaced == replaceAll(content)
     IN  /\ mdContent' = replaced
         /\ mdWrites' = mdWrites + 1
         /\ stdout' = Append(stdout, "Updated: " \o mdPath)
  /\ mdRuns' = mdRuns + 1
  /\ UNCHANGED <<mdPath, mdOriginal, warnings>>
  /\ UNCHANGED tagVars
  /\ UNCHANGED convVars
  /\ UNCHANGED mainVars
  /\ UNCHANGED filterVars

replaceFeatureReferences ==
  /\ mdRuns < MaxRuns
  /\ LET content == mdContent
         replaced == replaceAll(content)
     IN  IF replaced # content
         THEN /\ mdContent' = replaced
              /\ mdWrites' = mdWrites + 1
              /\ stdout' = Append(stdout, "Updated: " \o mdPath)
         ELSE UNCHANGED <<mdContent, mdWrites, stdout>>
  /\ mdRuns' = mdRuns + 1
  /\ UNCHANGED <<mdPath, mdOriginal, warnings>>
  /\ UNCHANGED tagVars
  /\ UNCHANGED convVars
  /\ UNCHANGED mainVars
  /\ UNCHANGED filterVars

-----------------------------------------------------------------------------
(* Inputs of replaceFeatureReferences: texts put together from pieces *)

Pieces ==
  {"a.feature", ".feature", ".md", ".yml", ".yaml", ".generated.md",
   " ", "\n", "s/", "x"}

RECURSIVE TextsUpTo(_)
TextsUpTo(n) ==
  IF n = 0 THEN {""}
  ELSE LET shorter == TextsUpTo(n - 1)
       IN  shorter \cup {s \o p : s \in shorter, p \in Pieces}

MdPaths == {"/docs/index.md", "/mkdocs.yml"}

InitMd ==
  /\ mdPath \in MdPaths
  /\ mdContent \in TextsUpTo(MaxPieces)
  /\ mdOriginal = mdContent
  /\ mdWrites = 0
  /\ mdRuns = 0
  /\ warnings = <<>>
  /\ stdout = <<>>
  /\ IdleTag
  /\ IdleConv
  /\ IdleMain
  /\ IdleFilter

NextMd == replaceFeatureReferences

SpecMd == InitMd /\ [][NextMd]_vars

-----------------------------------------------------------------------------
(* main() of the span-tag variant.  The module calls main() when it is     *)
(* loaded (src/feature2markdown.js:285); the call is not inside a try.     *)

Cwd == "/repo"

\* findFeatureFiles(dir): the files whose name ends in .feature, in the
\* order in which the walk through the directories meets them
findFeatureFiles(files) ==
  SelectSeq(files, LAMBDA f : EndsWith(f.path, ".feature"))

\* A main that goes on to the forEach and the count line when
\* findFeatureFiles found nothing.
mainFindFeatureFiles_NoEmptyBranch ==
  /\ mainState = "start"
  /\ featureFiles' = findFeatureFiles(disk)
  /\ mainState' = "forEach"
  /\ nextFile' = 1
  /\ UNCHANGED <<stdout, exitCode>>
  /\ UNCHANGED <<disk, argv2, stderr, warnings>>
  /\ UNCHANGED tagVars
  /\ UNCHANGED convVars
  /\ UNCHANGED mdVars
  /\ UNCHANGED filterVars

\* const featureFiles = findFeatureFiles(process.cwd()) and the test of
\* featureFiles.length
mainFindFeatureFiles ==
  /\ mainState = "start"
  /\ LET found == findFeatureFiles(disk)
     IN  /\ featureFiles' = found
         /\ IF Len(found) = 0
            THEN /\ stdout' = Append(stdout, "No .feature-files found in "
                                              \o Cwd \o ".")
                 /\ mainState' = "returned"
                 /\ exitCode' = 0
                 /\ nextFile' = nextFile
            ELSE /\ mainState' = "forEach"
                 /\ nextFile' = 1
                 /\ UNCHANGED <<stdout, exitCode>>
  /\ UNCHANGED <<disk, argv2, stderr, warnings>>
  /\ UNCHANGED tagVars
  /\ UNCHANGED convVars
  /\ UNCHANGED mdVars
  /\ UNCHANGED filterVars

\* featureFiles.forEach: the call convertFeatureToMarkdown(featurePath) for
\* the next element
mainForEach ==
  /\ mainState = "forEach"
  /\ nextFile <= Len(featureFiles)
  /\ featurePath' = featureFiles[nextFile].path
  /\ parsed' = featureFiles[nextFile].parsed
  /\ markdown' = featureFiles[nextFile].markdown
  /\ gherkinDocument' = [kind |-> "none"]
  /\ convState' = "ready"
  /\ mainState' = "converting"
  /\ UNCHANGED <<written, reads, warnings, stdout>>
  /\ UNCHANGED <<disk, featureFiles, nextFile, argv2, exitCode, stderr>>
  /\ UNCHANGED tagVars
  /\ UNCHANGED mdVars
  /\ UNCHANGED filterVars

\* convertFeatureToMarkdown has returned, and the forEach goes on; or it has
\* thrown, and the exception leaves the forEach and main: node prints it
\* and ends the process with status 1
mainAfterConvert ==
  /\ mainState = "converting"
  /\ convState # "ready"
  /\ IF convState = "done"
     THEN /\ mainState' = "forEach"
          /\ nextFile' = nextFile + 1
          /\ UNCHANGED <<exitCode, stderr>>
     ELSE /\ mainState' = "threw"
          /\ exitCode' = 1
          /\ stderr' = Append(stderr, convState)
          /\ nextFile' = nextFile
  /\ UNCHANGED <<disk, featureFiles, argv2, warnings, stdout>>
  /\ UNCHANGED tagVars
  /\ UNCHANGED convVars
  /\ UNCHANGED mdVars
  /\ UNCHANGED filterVars

\* console.log(`${featureFiles.length} feature files converted.`)
mainLogCount ==
  /\ mainState = "forEach"
  /\ nextFile > Len(featureFiles)
  /\ stdout' = Append(stdout, ToString(Len(featureFiles))
                                \o " feature files converted.")
  /\ mainState' = "returned"
  /\ exitCode' = 0
  /\ UNCHANGED <<disk, featureFiles, nextFile, argv2, stderr, warnings>>
  /\ UNCHANGED tagVars
  /\ UNCHANGED convVars
  /\ UNCHANGED mdVars
  /\ UNCHANGED filterVars

-----------------------------------------------------------------------------
(* The working directory of a run of main *)

FileOutcomes ==
  {SimpleDoc, [kind |-> "empty"], [kind |-> "ParseError"],
   [kind |-> "IOError"]}

DiskFiles ==
  {[path |-> p, parsed |-> o, markdown |-> PlainMarkdown] :
     p \in {Cwd \o "/a.feature", Cwd \o "/sub/b.feature"},
     o \in FileOutcomes}
  \cup {[path |-> Cwd \o "/README.md", parsed |-> [kind |-> "none"],
         markdown |-> ""]}

\* no two files of a directory tree have the same path
Disks ==
  {d \in SeqsUpTo(DiskFiles, MaxFiles) :
     \A i, j \in 1..Len(d) : d[i].path = d[j].path => i = j}

InitMain ==
  /\ disk \in Disks
  /\ featureFiles = <<>>
  /\ nextFile = 0
  /\ mainState = "start"
  /\ argv2 = undefined
  /\ exitCode = -1
  /\ stderr = <<>>
  /\ warnings = <<>>
  /\ stdout = <<>>
  /\ IdleTag
  /\ IdleConv
  /\ IdleMd
  /\ IdleFilter

NextMain ==
  \/ mainFindFeatureFiles
  \/ mainForEach
  \/ convertFeatureToMarkdown
  \/ mainAfterConvert
  \/ mainLogCount

SpecMain == InitMain /\ [][NextMain]_vars

-----------------------------------------------------------------------------
(* Loading the module of the span-tag variant: by `node feature2markdown.js`*)
(* or by an import, as the tests do.                                        *)

\* The statements at the top level of the module, behind the export: the
\* call main() stands there without a condition (the test of
\* import.meta.url against process.argv[1] is commented out), so main
\* starts however the module was loaded.
moduleTopLevel ==
  /\ mainState \in {"imported", "executed"}
  /\ mainState' = "start"
  /\ UNCHANGED <<disk, featureFiles, nextFile, argv2, exitCode, stderr>>
  /\ UNCHANGED <<warnings, stdout>>
  /\ UNCHANGED tagVars
  /\ UNCHANGED convVars
  /\ UNCHANGED mdVars
  /\ UNCHANGED filterVars

\* the module is about to be loaded, in a working directory with files
InitLoad ==
  /\ disk \in Disks
  /\ featureFiles = <<>>
  /\ nextFile = 0
  /\ mainState \in {"imported", "executed"}
  /\ argv2 = undefined
  /\ exitCode = -1
  /\ stderr = <<>>
  /\ warnings = <<>>
  /\ stdout = <<>>
  /\ IdleTag
  /\ IdleConv
  /\ IdleMd
  /\ IdleFilter

NextLoad ==
  \/ moduleTopLevel
  \/ mainFindFeatureFiles
  \/ mainForEach
  \/ convertFeatureToMarkdown
  \/ mainAfterConvert
  \/ mainLogCount

SpecLoad == InitLoad /\ [][NextLoad]_vars

-----------------------------------------------------------------------------
(* The badge-URL variant (src/feature2markdown.js:1-127): getBadgeMarkdown, *)
(* convertFeatureToMarkdown(featurePath, badgeServiceUrl), validateArgs and *)
(* the run of the script, validateArgs(); main();                           *)

UpperCase == "ABCDEFGHIJKLMNOPQRSTUVWXYZ"
LowerCase == "abcdefghijklmnopqrstuvwxyz"

RECURSIVE toLowerCase(_)
toLowerCase(s) ==
  IF s = "" THEN ""
  ELSE LET c == CharAt(s, 1)
           at == {i \in 1..Len(UpperCase) : CharAt(UpperCase, i) = c}
       IN  (IF at = {} THEN c ELSE CharAt(LowerCase, Min(at)))
           \o toLowerCase(Tail(s))

RECURSIVE RemoveSpecial(_)
\* .replace(/[^a-zA-Z0-9\s-]/g, '')
RemoveSpecial(s) ==
  IF s = "" THEN ""
  ELSE LET c == CharAt(s, 1)
       IN  (IF c \in (WordChars \ {"_"}) \cup WhiteSpace \cup {"-"}
            THEN c ELSE "")
           \o RemoveSpecial(Tail(s))

RECURSIVE CollapseRuns(_, _, _)
\* every run of characters of the set cs becomes one character by:
\* .replace(/\s+/g, '-') and .replace(/-+/g, '-')
CollapseRuns(s, cs, by) ==
  IF s = "" THEN ""
  ELSE IF CharAt(s, 1) \in cs
  THEN IF Len(s) > 1 /\ CharAt(s, 2) \in cs
       THEN CollapseRuns(Tail(s), cs, by)
       ELSE by \o CollapseRuns(Tail(s), cs, by)
  ELSE CharAt(s, 1) \o CollapseRuns(Tail(s), cs, by)

\* .replace(/^-|-$/g, '')
StripDashes(s) ==
  LET from == IF StartsAt(s, 1, "-") THEN 2 ELSE 1
      to == IF Len(s) > 1 /\ EndsWith(s, "-") THEN Len(s) - 1 ELSE Len(s)
  IN  SubSeq(s, from, to)

\* the normalisation of a feature or scenario name: trim, then the four
\* replacements, then toLowerCase, each on the value of the step before
NormalizeName(name) ==
  CHOOSE normalized \in
    {toLowerCase(d) :
       d \in {StripDashes(c) :
         c \in {CollapseRuns(b, {"-"}, "-") :
           b \in {CollapseRuns(a, WhiteSpace, "-") :
             a \in {RemoveSpecial(t) : t \in {Trim(name)}}}}}} : TRUE

\* getBadgeMarkdown(badgeServiceUrl, featureName, scenarioName): the text it
\* returns and the warning it logs
getBadgeMarkdown(badgeServiceUrl, fName, sName) ==
  IF Falsy(badgeServiceUrl)
  THEN [value |-> "",
        warn |-> <<"Badge service URL is not provided. Skipping badge generation.">>]
  ELSE IF fName = ""
  THEN [value |-> "",
        warn |-> <<"Feature name is not provided. Skipping badge generation.">>]
  ELSE IF sName = ""
  THEN [value |-> "",
        warn |-> <<"Scenario name is not provided. Skipping badge generation.">>]
  ELSE LET url == badgeServiceUrl.s
           normalizedBadgeServiceUrl ==
             IF EndsWith(url, "/") THEN SubSeq(url, 1, Len(url) - 1) ELSE url
       IN  [value |-> " ![badge](" \o normalizedBadgeServiceUrl \o "/"
                      \o NormalizeName(fName) \o "/" \o NormalizeName(sName)
                      \o ")",
            warn |-> <<>>]

\* What the loops over the children hand on: the children with their
\* badges, the warnings, the log lines, and whether a TypeError was thrown.
\* The sets of one element give each part its value once.
NoChildren ==
  [children |-> <<>>, warn |-> <<>>, log |-> <<>>, threw |-> FALSE]

\* scenario.name += getBadgeMarkdown(badgeServiceUrl, feature.name, name)
badgeScenario(child, badgeServiceUrl, fName) ==
  CHOOSE result \in
    {[children |-> <<[child EXCEPT !.node.name = @ \o badge.value]>>,
      warn |-> badge.warn,
      log |-> <<"Adding badge to scenario: " \o child.node.name>>,
      threw |-> FALSE] :
       badge \in {getBadgeMarkdown(badgeServiceUrl, fName, child.node.name)}}
    : TRUE

RECURSIVE badgeRuleChildren(_, _, _)
\* for (const scenario of child.rule.children): scenario.scenario.name is
\* read without a test, and throws a TypeError for a Background
badgeRuleChildren(cs, badgeServiceUrl, fName) ==
  IF cs = <<>> THEN NoChildren
  ELSE IF Head(cs).kind # "scenario"
  THEN [children |-> cs, warn |-> <<>>, log |-> <<>>, threw |-> TRUE]
  ELSE CHOOSE result \in
         {[children |-> one.children \o rest.children,
           warn |-> one.warn \o rest.warn,
           log |-> one.log \o rest.log,
           threw |-> rest.threw] :
            one \in {badgeScenario(Head(cs), badgeServiceUrl, fName)},
            rest \in {badgeRuleChildren(Tail(cs), badgeServiceUrl, fName)}}
         : TRUE

\* the body of the loop over gherkinDocument.feature.children
badgeChild(child, badgeServiceUrl, fName) ==
  IF child.kind = "rule"
  THEN CHOOSE result \in
         {[children |-> <<[child EXCEPT !.node.children = r.children]>>,
           warn |-> r.warn, log |-> r.log, threw |-> r.threw] :
            r \in {badgeRuleChildren(child.node.children, badgeServiceUrl,
                                     fName)}}
         : TRUE
  ELSE IF child.kind = "scenario"
  THEN badgeScenario(child, badgeServiceUrl, fName)
  ELSE [children |-> <<child>>, warn |-> <<>>, log |-> <<>>,
        threw |-> FALSE]

RECURSIVE badgeChildren(_, _, _)
\* for (const child of gherkinDocument.feature.children): a TypeError ends
\* the loop
badgeChildren(cs, badgeServiceUrl, fName) ==
  IF cs = <<>> THEN NoChildren
  ELSE CHOOSE result \in
         {IF one.threw
          THEN [one EXCEPT !.children = @ \o Tail(cs)]
          ELSE [children |-> one.children \o rest.children,
                warn |-> one.warn \o rest.warn,
                log |-> one.log \o rest.log,
                threw |-> rest.threw] :
            one \in {badgeChild(Head(cs), badgeServiceUrl, fName)},
            rest \in {badgeChildren(Tail(cs), badgeServiceUrl, fName)}}
         : TRUE

\* featurePath.replace(/\.feature/, '.feature.md')
badgeOutPathOf(path) ==
  LET i == IndexOf(path, ".feature")
  IN  IF i = 0 THEN path
      ELSE SubSeq(path, 1, i - 1) \o ".feature.md"
           \o SubSeq(path, i + Len(".feature"), Len(path))

\* convertFeatureToMarkdown(featurePath, badgeServiceUrl) up to the write:
\* how it ends, what it logs, and the document it hands to pretty()
badgeConvert(file, badgeServiceUrl) ==
  LET start == <<"Processing: " \o file.path>>
  IN  IF file.parsed.kind \in {"IOError", "ParseError"}
      THEN [state |-> file.parsed.kind, log |-> start, warn |-> <<>>,
            document |-> [kind |-> "none"]]
      ELSE IF file.parsed.kind = "empty"
      THEN [state |-> "TypeError", log |-> start, warn |-> <<>>,
            document |-> [kind |-> "none"]]
      ELSE CHOOSE result \in
             {[state |-> IF a.threw THEN "TypeError" ELSE "rendered",
               log |-> start
                       \o <<"# items in feature: "
                              \o ToString(Len(file.parsed.feature.children))>>
                       \o a.log,
               warn |-> a.warn,
               document |-> [file.parsed.feature
                               EXCEPT !.children = a.children]] :
                a \in {badgeChildren(file.parsed.feature.children,
                                     badgeServiceUrl,
                                     file.parsed.feature.name)}}
             : TRUE

\* A validateArgs that reports the bad argument and lets the program go on.
validateArgs_NoExit ==
  /\ mainState = "validateArgs"
  /\ IF argv2.t = "string" /\ ~StartsAt(argv2.s, 1, "http")
     THEN stderr' = Append(stderr,
                           "Badge service URL must start with http or https.")
     ELSE stderr' = stderr
  /\ mainState' = "start"
  /\ UNCHANGED <<disk, featureFiles, nextFile, argv2, exitCode>>
  /\ UNCHANGED <<warnings, stdout>>
  /\ UNCHANGED tagVars
  /\ UNCHANGED convVars
  /\ UNCHANGED mdVars
  /\ UNCHANGED filterVars

\* validateArgs(): process.argv[2], when there is one, has to start with
\* 'http'; process.exit(1) ends the process at once
validateArgs ==
  /\ mainState = "validateArgs"
  /\ IF argv2.t = "string" /\ ~StartsAt(argv2.s, 1, "http")
     THEN /\ stderr' = Append(stderr,
                              "Badge service URL must start with http or https.")
          /\ exitCode' = 1
          /\ mainState' = "exited"
     ELSE /\ mainState' = "start"
          /\ UNCHANGED <<stderr, exitCode>>
  /\ UNCHANGED <<disk, featureFiles, nextFile, argv2>>
  /\ UNCHANGED <<warnings, stdout>>
  /\ UNCHANGED tagVars
  /\ UNCHANGED convVars
  /\ UNCHANGED mdVars
  /\ UNCHANGED filterVars

\* featureFiles.forEach of the badge-URL main: the whole call
\* convertFeatureToMarkdown(featurePath, badgeServiceUrl) for the next
\* element; an exception leaves the forEach and main
mainForEachBadgeUrl ==
  /\ mainState = "forEach"
  /\ nextFile <= Len(featureFiles)
  /\ \E r \in {badgeConvert(featureFiles[nextFile], argv2)} :
     LET file == featureFiles[nextFile]
         outPath == badgeOutPathOf(file.path)
     IN  /\ reads' = Append(reads, file.path)
         /\ warnings' = warnings \o r.warn
         /\ IF r.state # "rendered"
            THEN /\ stdout' = stdout \o r.log
                 /\ written' = written
                 /\ mainState' = "threw"
                 /\ exitCode' = 1
                 /\ stderr' = Append(stderr, r.state)
                 /\ nextFile' = nextFile
            ELSE \E dirExists \in
                     (IF Dirname(outPath) = Dirname(file.path)
                      THEN {TRUE} ELSE BOOLEAN) :
                   IF dirExists
                   THEN /\ written' =
                             Append(written,
                                    [path |-> outPath,
                                     data |-> file.markdown,
                                     prefix |-> "",
                                     document |-> r.document])
                        /\ stdout' = stdout \o r.log
                             \o <<"Converted and stored as: " \o outPath>>
                        /\ nextFile' = nextFile + 1
                        /\ UNCHANGED <<mainState, exitCode, stderr>>
                   ELSE /\ written' = written
                        /\ stdout' = stdout \o r.log
                        /\ mainState' = "threw"
                        /\ exitCode' = 1
                        /\ stderr' = Append(stderr, "ENOENT")
                        /\ nextFile' = nextFile
  /\ UNCHANGED <<disk, featureFiles, argv2>>
  /\ UNCHANGED <<featurePath, parsed, gherkinDocument, convState, markdown>>
  /\ UNCHANGED tagVars
  /\ UNCHANGED mdVars
  /\ UNCHANGED filterVars

\* process.argv[2]: absent, or what the caller typed
ArgValues ==
  {undefined, Str("https://badges.example.com/"), Str("http://badges"),
   Str("ftp://badges"), Str("badges.example.com"), Str("")}

BadgeDoc ==
  [kind |-> "doc",
   feature |->
     [keyword |-> "Feature", name |-> "My Feature!", description |-> "",
      children |->
        <<[kind |-> "scenario",
           node |-> [keyword |-> "Scenario", name |-> " Log  in - now ",
                     description |-> "", steps |-> SomeSteps,
                     examples |-> <<>>]],
          [kind |-> "rule",
           node |-> [keyword |-> "Rule", name |-> "R", description |-> "",
                     children |->
                       <<[kind |-> "scenario",
                          node |-> [keyword |-> "Scenario", name |-> "",
                                    description |-> "", steps |-> SomeSteps,
                                    examples |-> <<>>]]>>]]>>]]

BackgroundInRuleDoc ==
  [kind |-> "doc",
   feature |->
     [keyword |-> "Feature", name |-> "F", description |-> "",
      children |->
        <<[kind |-> "rule",
           node |-> [keyword |-> "Rule", name |-> "R", description |-> "",
                     children |-> <<BackgroundChild>>]]>>]]

CliDiskFiles ==
  {[path |-> p, parsed |-> o, markdown |-> PlainMarkdown] :
     p \in {Cwd \o "/a.feature", Cwd \o "/v1.features/b.feature"},
     o \in {BadgeDoc, BackgroundInRuleDoc, [kind |-> "ParseError"]}}
  \cup {[path |-> Cwd \o "/README.md", parsed |-> [kind |-> "none"],
         markdown |-> ""]}

CliDisks ==
  {d \in SeqsUpTo(CliDiskFiles, MaxFiles) :
     \A i, j \in 1..Len(d) : d[i].path = d[j].path => i = j}

\* the state in which the script starts when it is executed directly
InitCli ==
  /\ argv2 \in ArgValues
  /\ disk \in CliDisks
  /\ featureFiles = <<>>
  /\ nextFile = 0
  /\ mainState = "validateArgs"
  /\ exitCode = -1
  /\ stderr = <<>>
  /\ warnings = <<>>
  /\ stdout = <<>>
  /\ IdleTag
  /\ IdleConv
  /\ IdleMd
  /\ IdleFilter

NextCli ==
  \/ validateArgs
  \/ mainFindFeatureFiles
  \/ mainForEachBadgeUrl
  \/ mainLogCount

SpecCli == InitCli /\ [][NextCli]_vars

-----------------------------------------------------------------------------
(* The post-processing filters filterOutComments and fixTableFormatting.   *)
(* The tests import them from feature2markdown.js (src/unnamed/part_001);  *)
(* they are modelled after section 4.4 of the specification and the cases  *)
(* of those tests.                                                         *)

RECURSIVE SplitFrom(_, _, _)
\* the lines of text from position i on; cur is the line that is open at i
SplitFrom(text, i, cur) ==
  IF i > Len(text) THEN <<cur>>
  ELSE IF CharAt(text, i) = "\n"
  THEN <<cur>> \o SplitFrom(text, i + 1, "")
  ELSE SplitFrom(text, i + 1, cur \o CharAt(text, i))

\* text.split('\n')
SplitLines(text) == SplitFrom(text, 1, "")

RECURSIVE JoinLines(_)
\* lines.join('\n')
JoinLines(lines) ==
  IF lines = <<>> THEN ""
  ELSE IF Len(lines) = 1 THEN lines[1]
  ELSE lines[1] \o "\n" \o JoinLines(Tail(lines))

RECURSIVE LeadingHashes(_)
\* the number of # characters the line starts with
LeadingHashes(line) ==
  IF StartsAt(line, 1, "#") THEN 1 + LeadingHashes(Tail(line)) ELSE 0

\* the titles the renderer writes as headings
HeadingKeywords ==
  {"Feature:", "Rule:", "Background:", "Scenario:", "Scenario Outline:",
   "Examples:"}

\* A heading that takes every line that starts with # at column 0 for a
\* heading.
isHeading_AnyHashAtColumn0(line) == StartsAt(line, 1, "#")

\* A Markdown heading: the line starts, at column 0, with one or more #
\* and a space, and is a heading by its structure: a heading of the second
\* level or deeper, or a first-level heading with a title of the renderer.
\* A line `# text` at column 0 with any other text is a Gherkin comment.
isHeading(line) ==
  LET n == LeadingHashes(line)
  IN  /\ n >= 1
      /\ StartsAt(line, n + 1, " ")
      /\ \/ n >= 2
         \/ \E k \in HeadingKeywords : StartsAt(line, n + 2, k)

\* a line whose trimmed content starts with # and that is no heading
isComment(line) == StartsAt(Trim(line), 1, "#") /\ ~isHeading(line)

RECURSIVE KeepLines(_)
KeepLines(lines) ==
  IF lines = <<>> THEN <<>>
  ELSE (IF isComment(Head(lines)) THEN <<>> ELSE <<Head(lines)>>)
       \o KeepLines(Tail(lines))

RECURSIVE KeepLines_Trimmed(_)
KeepLines_Trimmed(lines) ==
  IF lines = <<>> THEN <<>>
  ELSE (IF StartsAt(Head(lines), 1, "#") /\ ~isHeading(Head(lines))
        THEN <<>> ELSE <<TrimStart(Head(lines))>>)
       \o KeepLines_Trimmed(Tail(lines))

\* A comment stripper that tests the line as it stands and writes the lines
\* it keeps without their indentation.
filterOutComments_TrimsKeptLines(text) ==
  JoinLines(KeepLines_Trimmed(SplitLines(text)))

\* filterOutComments(markdown): the text without its comment lines
filterOutComments(text) == JoinLines(KeepLines(SplitLines(text)))

\* A row test that takes every line with a pipe character in it for a
\* table row.
isTableRow_AnyPipe(line) == \E i \in 1..Len(line) : CharAt(line, i) = "|"

\* a table row: the trimmed line starts and ends with |
isTableRow(line) ==
  LET trimmed == Trim(line)
  IN  StartsAt(trimmed, 1, "|") /\ EndsWith(trimmed, "|")

RECURSIVE FixFrom_BlankAfterEveryTable(_, _, _)
\* A table formatter that puts a blank line behind every table, also when
\* one is there already.
FixFrom_BlankAfterEveryTable(lines, i, inTable) ==
  IF i > Len(lines) THEN (IF inTable THEN <<"">> ELSE <<>>)
  ELSE IF isTableRow(lines[i])
  THEN <<TrimStart(lines[i])>>
       \o FixFrom_BlankAfterEveryTable(lines, i + 1, TRUE)
  ELSE (IF inTable THEN <<"">> ELSE <<>>)
       \o <<lines[i]>>
       \o FixFrom_BlankAfterEveryTable(lines, i + 1, FALSE)

RECURSIVE FixFrom(_, _, _)
\* The lines from line i on, inTable telling that line i - 1 is a table
\* row: a row loses its indentation; a blank line is put behind the last
\* row of a table when a line with content follows it or the text ends.
FixFrom(lines, i, inTable) ==
  IF i > Len(lines) THEN (IF inTable THEN <<"">> ELSE <<>>)
  ELSE IF isTableRow(lines[i])
  THEN <<TrimStart(lines[i])>> \o FixFrom(lines, i + 1, TRUE)
  ELSE (IF inTable /\ Trim(lines[i]) # "" THEN <<"">> ELSE <<>>)
       \o <<lines[i]>>
       \o FixFrom(lines, i + 1, FALSE)

RECURSIVE CollapseNewlines(_, _, _)
\* text from position i on with every run of three or more newline
\* characters cut down to two; run counts the newlines directly before i
CollapseNewlines(text, i, run) ==
  IF i > Len(text) THEN ""
  ELSE IF CharAt(text, i) = "\n"
  THEN (IF run >= 2 THEN "" ELSE "\n") \o CollapseNewlines(text, i + 1, run + 1)
  ELSE CharAt(text, i) \o CollapseNewlines(text, i + 1, 0)

\* A table formatter that leaves the runs of newlines as they come out of
\* the line pass.
fixTableFormatting_KeepsNewlineRuns(text) ==
  JoinLines(
    CHOOSE fixed \in {FixFrom(lines, 1, FALSE) : lines \in {SplitLines(text)}}
      : TRUE)

\* fixTableFormatting(markdown): the line pass, then no run of three or
\* more newline characters is left in the text
fixTableFormatting(text) ==
  CHOOSE result \in
    {CollapseNewlines(joined, 1, 0) :
       joined \in {JoinLines(fixed) :
         fixed \in {FixFrom(lines, 1, FALSE) : lines \in {SplitLines(text)}}}}
    : TRUE

\* one pass of the comment stripper over the text
applyFilterOutComments ==
  /\ Len(passes) < MaxPasses
  /\ filtered' = filterOutComments(filtered)
  /\ passes' = Append(passes, "filterOutComments")
  /\ UNCHANGED <<warnings, stdout>>
  /\ UNCHANGED tagVars
  /\ UNCHANGED convVars
  /\ UNCHANGED mdVars
  /\ UNCHANGED mainVars

\* one pass of the table formatter over the text
applyFixTableFormatting ==
  /\ Len(passes) < MaxPasses
  /\ filtered' = fixTableFormatting(filtered)
  /\ passes' = Append(passes, "fixTableFormatting")
  /\ UNCHANGED <<warnings, stdout>>
  /\ UNCHANGED tagVars
  /\ UNCHANGED convVars
  /\ UNCHANGED mdVars
  /\ UNCHANGED mainVars

\* Rendered texts with two or three blank lines in a row, between, before
\* and behind a table row and a step
BlankRunTexts ==
  {a \o blanks \o b :
     a \in {"", "  | a | b |", "* Given \"x|y\""},
     blanks \in {"\n\n\n", "\n\n\n\n"},
     b \in {"", "| c |", "# Feature: F"}}

\* Rendered texts with an indented line that has pipe characters inside its
\* text (a line of a doc string), beside a table
IndentedPipeTexts ==
  {"  see \"x|y\"", "  see \"x|y\"\n  | a | b |",
   "  | a | b |\n  see \"x|y\"", "* Given \"x|y\"\n  see \"x|y\"\n| c |"}

\* a rendered text that no pass has worked on yet
InitFilter ==
  /\ markdown \in MarkdownTexts \cup BlankRunTexts \cup IndentedPipeTexts
  /\ filtered = markdown
  /\ passes = <<>>
  /\ featurePath = ""
  /\ parsed = [kind |-> "none"]
  /\ gherkinDocument = [kind |-> "none"]
  /\ written = <<>>
  /\ convState = "idle"
  /\ reads = <<>>
  /\ warnings = <<>>
  /\ stdout = <<>>
  /\ IdleTag
  /\ IdleMd
  /\ IdleMain

NextFilter ==
  \/ applyFilterOutComments
  \/ applyFixTableFormatting

SpecFilter == InitFilter /\ [][NextFilter]_vars

-----------------------------------------------------------------------------
(* The bdd-badge variant of feature2markdown.js: getBadgeTag returns an    *)
(* empty span of class bdd-badge, and convertFeatureToMarkdown appends it   *)
(* to the names of the scenarios.                                           *)

\* getBadgeTag(featureName, scenarioName) of the bdd-badge variant
bddBadgeGetBadgeTag(f, s) ==
  IF Falsy(f)
  THEN [value |-> "", warn |-> <<FeatureNameRequired>>]
  ELSE IF Falsy(s)
  THEN [value |-> "<span class=\"bdd-badge\" data-feature=\"" \o f.s
                    \o "\"></span>",
        warn |-> <<>>]
  ELSE [value |-> "<span class=\"bdd-badge\" data-feature=\"" \o f.s
                    \o "\" data-scenario=\"" \o s.s \o "\"></span>",
        warn |-> <<>>]

RECURSIVE bddBadgeRuleChildren(_, _)
\* for (const scenario of child.rule.children): the log line reads
\* scenario.scenario.name, a TypeError for a Background; the badge is
\* getBadgeTag(gherkinDocument.feature.name), called with one argument
bddBadgeRuleChildren(cs, fName) ==
  IF cs = <<>> THEN NoChildren
  ELSE IF Head(cs).kind # "scenario"
  THEN [children |-> cs, warn |-> <<>>, log |-> <<>>, threw |-> TRUE]
  ELSE CHOOSE result \in
         {[children |->
             <<[Head(cs) EXCEPT !.node.name = @ \o badge.value]>>
             \o rest.children,
           warn |-> badge.warn \o rest.warn,
           log |-> <<"Adding badge to scenario: " \o Head(cs).node.name>>
                   \o rest.log,
           threw |-> rest.threw] :
            badge \in {bddBadgeGetBadgeTag(Str(fName), undefined)},
            rest \in {bddBadgeRuleChildren(Tail(cs), fName)}}
         : TRUE

\* the body of the loop over gherkinDocument.feature.children: a rule, a
\* scenario directly under the feature, or a child that is left alone
bddBadgeChild(child, fName) ==
  IF child.kind = "rule"
  THEN CHOOSE result \in
         {[children |-> <<[child EXCEPT !.node.children = r.children]>>,
           warn |-> r.warn, log |-> r.log, threw |-> r.threw] :
            r \in {bddBadgeRuleChildren(child.node.children, fName)}}
         : TRUE
  ELSE IF child.kind = "scenario"
  THEN CHOOSE result \in
         {[children |-> <<[child EXCEPT !.node.name = @ \o badge.value]>>,
           warn |-> badge.warn,
           log |-> <<"Adding badge to scenario: " \o child.node.name>>,
           threw |-> FALSE] :
            badge \in {bddBadgeGetBadgeTag(Str(fName), Str(child.node.name))}}
         : TRUE
  ELSE [children |-> <<child>>, warn |-> <<>>, log |-> <<>>,
        threw |-> FALSE]

RECURSIVE bddBadgeChildren(_, _)
\* for (const child of gherkinDocument.feature.children): a TypeError ends
\* the loop
bddBadgeChildren(cs, fName) ==
  IF cs = <<>> THEN NoChildren
  ELSE CHOOSE result \in
         {IF one.threw
          THEN [one EXCEPT !.children = @ \o Tail(cs)]
          ELSE [children |-> one.children \o rest.children,
                warn |-> one.warn \o rest.warn,
                log |-> one.log \o rest.log,
                threw |-> rest.threw] :
            one \in {bddBadgeChild(Head(cs), fName)},
            rest \in {bddBadgeChildren(Tail(cs), fName)}}
         : TRUE

\* one call getBadgeTag(featureName, scenarioName) of the bdd-badge variant
CallBddBadgeGetBadgeTag ==
  /\ ~tagResult.called
  /\ \E r \in {bddBadgeGetBadgeTag(featureName, scenarioName)} :
       /\ tagResult' = [called |-> TRUE, value |-> r.value, threw |-> FALSE]
       /\ warnings' = warnings \o r.warn
  /\ UNCHANGED <<featureName, scenarioName, scenarioOutlineName, stdout>>
  /\ UNCHANGED convVars
  /\ UNCHANGED mdVars
  /\ UNCHANGED filterVars
  /\ UNCHANGED mainVars

\* convertFeatureToMarkdown(featurePath) of the bdd-badge variant: read,
\* parse, append the badges, render, write the rendered text to the path
\* with its first `.feature` replaced by `.generated.md`
bddBadgeConvertFeatureToMarkdown ==
  /\ convState = "ready"
  /\ reads' = Append(reads, featurePath)
  /\ LET start == <<"Processing: " \o featurePath>>
     IN  IF parsed.kind \in {"IOError", "ParseError"}
         THEN /\ convState' = parsed.kind
              /\ stdout' = stdout \o start
              /\ UNCHANGED <<gherkinDocument, written, warnings>>
         ELSE IF parsed.kind = "empty"
         THEN /\ convState' = "TypeError"
              /\ stdout' = stdout \o start
              /\ UNCHANGED <<gherkinDocument, written, warnings>>
         ELSE \E a \in {bddBadgeChildren(parsed.feature.children,
                                         parsed.feature.name)},
                 items \in {<<"# items in feature: "
                                \o ToString(Len(parsed.feature.children))>>},
                 outPath \in {outPathOf(featurePath)} :
                /\ gherkinDocument' =
                     [kind |-> "doc",
                      feature |-> [parsed.feature EXCEPT !.children = a.children]]
                /\ warnings' = warnings \o a.warn
                /\ IF a.threw
                   THEN /\ written' = written
                        /\ convState' = "TypeError"
                        /\ stdout' = stdout \o start \o items \o a.log
                   ELSE \E dirExists \in
                            (IF Dirname(outPath) = Dirname(featurePath)
                             THEN {TRUE} ELSE BOOLEAN) :
                          IF dirExists
                          THEN /\ written' =
                                    Append(written,
                                           [path |-> outPath,
                                            data |-> markdown,
                                            prefix |-> "",
                                            document |->
                                              [parsed.feature
                                                 EXCEPT !.children = a.children]])
                               /\ convState' = "done"
                               /\ stdout' = stdout \o start \o items \o a.log
                                    \o <<"Converted and stored as: " \o outPath>>
                          ELSE /\ written' = written
                               /\ convState' = "ENOENT"
                               /\ stdout' = stdout \o start \o items \o a.log
  /\ UNCHANGED <<featurePath, parsed, markdown>>
  /\ UNCHANGED tagVars
  /\ UNCHANGED mdVars
  /\ UNCHANGED filterVars
  /\ UNCHANGED mainVars

\* the arguments of one getBadgeTag call and the file of one
\* convertFeatureToMarkdown call
InitBddBadge ==
  /\ \/ /\ featureName \in JsValues
        /\ scenarioName \in JsValues
        /\ featurePath = PlainPath
        /\ parsed = SimpleDoc
     \/ /\ featureName = Str("My Feature")
        /\ scenarioName = undefined
        /\ featurePath = PlainPath
        /\ parsed \in ParseOutcomes
     \/ /\ featureName = Str("My Feature")
        /\ scenarioName = Str("My Scenario")
        /\ featurePath \in FeaturePaths
        /\ parsed = SimpleDoc
  /\ scenarioOutlineName = undefined
  /\ tagResult = NoResult
  /\ markdown = PlainMarkdown
  /\ gherkinDocument = [kind |-> "none"]
  /\ written = <<>>
  /\ reads = <<>>
  /\ convState = "ready"
  /\ warnings = <<>>
  /\ stdout = <<>>
  /\ IdleMd
  /\ IdleFilter
  /\ IdleMain

NextBddBadge ==
  \/ CallBddBadgeGetBadgeTag
  \/ bddBadgeConvertFeatureToMarkdown

SpecBddBadge == InitBddBadge /\ [][NextBddBadge]_vars

-----------------------------------------------------------------------------
(* Claims about getBadgeTag, checked under SpecTag *)

\* every occurrence of p in s is the beginning of an occurrence of q
OnlyAsPrefixOf(s, p, q) ==
  \A i \in 1..(Len(s) - Len(p) + 1) : StartsAt(s, i, p) => StartsAt(s, i, q)

\* C1: for non-empty F and S, getBadgeTag(F, S) is exactly the scenario span
\* with F and S inserted verbatim, and so contains both
C1_ScenarioTagTemplate ==
  ( /\ tagResult.called
    /\ ~Falsy(featureName) /\ ~Falsy(scenarioName)
    /\ scenarioOutlineName = undefined )
  => /\ tagResult.value =
          "<span class=\"bdd-badge-scenario\" data-feature=\"" \o featureName.s
          \o "\" data-scenario=\"" \o scenarioName.s \o "\">"
          \o scenarioName.s \o "</span>"
     /\ Contains(tagResult.value, featureName.s)
     /\ Contains(tagResult.value, scenarioName.s)

C1_Witness ==
  /\ tagResult.called
  /\ featureName = Str("\"<") /\ scenarioName = Str("<a")
  /\ scenarioOutlineName = undefined
  /\ Contains(tagResult.value, "data-scenario=\"<a\"><a</span>")

\* C2 as stated: the feature-only tag never contains `data-scenario`; the
\* outline tag contains `data-scenario-outline` and never `data-scenario`
C2_Original ==
  ( /\ tagResult.called
    /\ ~Falsy(featureName) /\ scenarioName = null )
  => /\ scenarioOutlineName = undefined
          => ~Contains(tagResult.value, "data-scenario")
     /\ ~Falsy(scenarioOutlineName)
          => /\ Contains(tagResult.value, "data-scenario-outline")
             /\ ~Contains(tagResult.value, "data-scenario")

\* C2 as amended: for non-empty F and O that do not themselves contain the
\* text `data-scenario`, the feature-only tag never contains `data-scenario`,
\* and the outline tag contains `data-scenario-outline`, has no
\* `data-scenario=` attribute, and holds `data-scenario` only as the first
\* part of `data-scenario-outline`
C2_NoScenarioAttribute ==
  ( /\ tagResult.called
    /\ ~Falsy(featureName) /\ scenarioName = null
    /\ ~Contains(featureName.s, "data-scenario") )
  => /\ scenarioOutlineName = undefined
          => ~Contains(tagResult.value, "data-scenario")
     /\ ( ~Falsy(scenarioOutlineName)
          /\ ~Contains(scenarioOutlineName.s, "data-scenario") )
          => /\ Contains(tagResult.value, "data-scenario-outline")
             /\ ~Contains(tagResult.value, "data-scenario=")
             /\ OnlyAsPrefixOf(tagResult.value, "data-scenario",
                               "data-scenario-outline")

C2_Witness ==
  /\ tagResult.called
  /\ featureName = Str("a") /\ scenarioName = null
  /\ scenarioOutlineName = Str("a<")
  /\ Contains(tagResult.value, "data-scenario-outline=\"a<\"")

\* C3: with an empty, null or undefined feature name getBadgeTag returns the
\* empty string, logs the warning and does not throw, whatever the other
\* two arguments are
C3_MissingFeatureName ==
  (tagResult.called /\ Falsy(featureName))
  => /\ tagResult.value = ""
     /\ warnings = <<FeatureNameRequired>>
     /\ ~tagResult.threw

C3_Witness ==
  /\ tagResult.called
  /\ featureName = null /\ scenarioName = Str("a")
  /\ scenarioOutlineName = Str("<")
  /\ tagResult.value = "" /\ warnings # <<>>

-----------------------------------------------------------------------------
(* Claims about the annotation step, checked under SpecConv *)

Annotated == gherkinDocument.kind = "doc"

\* the scenarios of a feature, directly under it and under its rules, as
\* pairs <<node as parsed, node after annotation>>
ScenarioPairs(f0, f1) ==
  {<<f0.children[i].node, f1.children[i].node>> :
     i \in {i \in 1..Len(f0.children) : f0.children[i].kind = "scenario"}}
  \cup UNION
  {{<<f0.children[i].node.children[j].node,
      f1.children[i].node.children[j].node>> :
      j \in {j \in 1..Len(f0.children[i].node.children) :
               f0.children[i].node.children[j].kind = "scenario"}} :
     i \in {i \in 1..Len(f0.children) : f0.children[i].kind = "rule"}}

\* C4 as stated: after annotation the feature name and every scenario name
\* still contain the title as parsed
C4_Original ==
  Annotated =>
    /\ Contains(gherkinDocument.feature.name, parsed.feature.name)
    /\ \A pr \in ScenarioPairs(parsed.feature, gherkinDocument.feature) :
         Contains(pr[2].name, pr[1].name)

\* C5 as stated: a scenario or outline with an empty name under a named
\* feature is annotated with the empty string and a warning is logged
C5_Original ==
  (Annotated /\ parsed.feature.name # "") =>
    \A pr \in ScenarioPairs(parsed.feature, gherkinDocument.feature) :
      pr[1].name = "" => (pr[2].name = "" /\ warnings # <<>>)

\* C6: a scenario whose trimmed keyword is `Scenario Outline` gets the
\* outline tag getBadgeTag(F, null, name), every other scenario the scenario
\* tag getBadgeTag(F, name), under a rule as directly under the feature
C6_TagByKeyword ==
  Annotated =>
    \A pr \in ScenarioPairs(parsed.feature, gherkinDocument.feature) :
      pr[2].name =
        IF Trim(pr[1].keyword) = "Scenario Outline"
        THEN getBadgeTag(Str(parsed.feature.name), null,
                         Str(pr[1].name)).value
        ELSE getBadgeTag(Str(parsed.feature.name), Str(pr[1].name),
                         undefined).value

C6_Witness ==
  /\ Annotated
  /\ parsed.feature.name = "F"
  /\ Len(parsed.feature.children) = 2
  /\ parsed.feature.children[1].kind = "rule"
  /\ Len(parsed.feature.children[1].node.children) = 1
  /\ parsed.feature.children[1].node.children[1].kind = "scenario"
  /\ parsed.feature.children[1].node.children[1].node.keyword
       = "Scenario Outline"
  /\ parsed.feature.children[1].node.children[1].node.name = "S"
  /\ parsed.feature.children[2].kind = "scenario"
  /\ parsed.feature.children[2].node.keyword = "Scenario"
  /\ parsed.feature.children[2].node.name = "S"
  /\ Contains(gherkinDocument.feature.children[1].node.children[1].node.name,
              "bdd-badge-scenario-outline")
  /\ Contains(gherkinDocument.feature.children[2].node.name,
              "class=\"bdd-badge-scenario\"")

\* a child with the name of its scenario, and of the scenarios under its
\* rule, blanked
EraseChildName(child) ==
  IF child.kind = "scenario" THEN [child EXCEPT !.node.name = ""]
  ELSE IF child.kind = "rule"
  THEN [child EXCEPT
          !.node.children =
             [j \in 1..Len(child.node.children) |->
                IF child.node.children[j].kind = "scenario"
                THEN [child.node.children[j] EXCEPT !.node.name = ""]
                ELSE child.node.children[j]]]
  ELSE child

\* a feature with its own name and the names of its scenarios blanked
EraseNames(f) ==
  [f EXCEPT !.name = "",
            !.children = [i \in 1..Len(f.children) |->
                            EraseChildName(f.children[i])]]

\* C7: annotation changes the feature name and the scenario names only:
\* rule names, backgrounds, descriptions, steps, the children and their
\* order, and the example tables stay as parsed
C7_OnlyNamesChange ==
  Annotated =>
    EraseNames(gherkinDocument.feature) = EraseNames(parsed.feature)

C7_Witness ==
  /\ Annotated
  /\ Len(parsed.feature.children) = 2
  /\ parsed.feature.children[1].kind = "rule"
  /\ Len(parsed.feature.children[1].node.children) = 1
  /\ parsed.feature.children[1].node.children[1].kind = "scenario"
  /\ parsed.feature.children[1].node.children[1].node.examples # <<>>
  /\ parsed.feature.children[2].kind = "background"
  /\ gherkinDocument.feature.children[1].node.name = "R"
  /\ gherkinDocument.feature # parsed.feature

\* C8 as stated: for a path ending in `.feature` exactly one file is
\* written, at the path with that trailing suffix replaced by `.generated.md`
C8_Original ==
  ( /\ convState \notin {"ready", "idle"}
    /\ parsed.kind = "doc"
    /\ EndsWith(featurePath, ".feature") )
  => /\ Len(written) = 1
     /\ written[1].path =
          SubSeq(featurePath, 1, Len(featurePath) - Len(".feature"))
          \o ".generated.md"

\* C9 as stated: what the reference rewriter makes of a reference to the
\* path of a converted file is the path the converter wrote
C9_Original ==
  \A i \in 1..Len(written) : replaceAll(featurePath) = written[i].path

-----------------------------------------------------------------------------
(* Claims about replaceFeatureReferences, checked under SpecMd *)

\* a `.feature` at position e with a non-whitespace character before it and
\* none of the extensions .md, .yml, .yaml behind it
Rewritable(content, e) ==
  /\ e > 1
  /\ StartsAt(content, e, ".feature")
  /\ CharAt(content, e - 1) \notin WhiteSpace
  /\ ~ExtensionFollows(content, e + Len(".feature"))

RECURSIVE RewriteEvery(_, _)
\* the text from position i on with every such `.feature` rewritten
RewriteEvery(content, i) ==
  IF i > Len(content) THEN ""
  ELSE IF Rewritable(content, i)
  THEN ".generated.md" \o RewriteEvery(content, i + Len(".feature"))
  ELSE CharAt(content, i) \o RewriteEvery(content, i + 1)

\* C10 as stated: one pass rewrites the `.feature` suffix of every token of
\* non-whitespace characters that ends in `.feature` and is not followed by
\* .md, .yml or .yaml, and keeps everything else
C10_Original ==
  mdRuns = 1 => mdContent = RewriteEvery(mdOriginal, 1)

RECURSIVE TokensFrom(_, _, _)
\* the maximal runs of non-whitespace characters of content from position
\* i on, in order; cur is the run that is open at i
TokensFrom(content, i, cur) ==
  LET closed == IF cur = "" THEN <<>> ELSE <<cur>>
  IN  IF i > Len(content) THEN closed
      ELSE IF CharAt(content, i) \in WhiteSpace
      THEN closed \o TokensFrom(content, i + 1, "")
      ELSE TokensFrom(content, i + 1, cur \o CharAt(content, i))

Tokens(content) == TokensFrom(content, 1, "")

\* a token that refers to a generated file or to a .feature.yml/.yaml file
AlreadyConverted(token) ==
  \E suffix \in {".generated.md", ".feature.yml", ".feature.yaml"} :
    EndsWith(token, suffix)

\* C11 as stated: every token that ends in .generated.md, .feature.yml or
\* .feature.yaml is the same token before and after replaceFeatureReferences
C11_Original ==
  mdRuns = 1 =>
    LET before == Tokens(mdOriginal)
        after == Tokens(mdContent)
    IN  /\ Len(after) = Len(before)
        /\ \A k \in 1..Len(before) :
             AlreadyConverted(before[k]) => after[k] = before[k]

\* C12: a call of replaceFeatureReferences writes the file exactly when the
\* rewritten content differs from the content it read, and then logs
\* `Updated: <path>` once; when the regular expression matches nowhere (as
\* in an empty file) it writes nothing and logs nothing
C12_WriteOnlyOnChange ==
  [][mdRuns' = mdRuns + 1 =>
       /\ (mdWrites' # mdWrites) <=> (replaceAll(mdContent) # mdContent)
       /\ mdWrites' # mdWrites =>
            /\ mdWrites' = mdWrites + 1
            /\ mdContent' = replaceAll(mdContent)
            /\ stdout' = Append(stdout, "Updated: " \o mdPath)
       /\ mdWrites' = mdWrites =>
            /\ mdContent' = mdContent
            /\ stdout' = stdout
       /\ LeftmostMatch(mdContent, 1) = 0 =>
            /\ mdWrites' = mdWrites
            /\ stdout' = stdout]_vars

\* a first call that wrote and logged, then a second call on the rewritten
\* file that found nothing to rewrite
C12_Witness ==
  /\ mdRuns = 2
  /\ mdOriginal = "a.feature\n"
  /\ mdContent = "a.generated.md\n"
  /\ mdWrites = 1
  /\ stdout = <<"Updated: " \o mdPath>>

-----------------------------------------------------------------------------
(* Claims about main and about failures of convertFeatureToMarkdown *)

\* C13 as stated: when the only failures of a batch are parse errors, main
\* has written, when it ends, the output of every file that parses
C13_Original ==
  (/\ mainState \in {"returned", "threw"}
   /\ \A k \in 1..Len(featureFiles) :
        featureFiles[k].parsed.kind \in {"doc", "ParseError"})
  => \A k \in 1..Len(featureFiles) :
       featureFiles[k].parsed.kind = "doc" =>
         \E i \in 1..Len(written) :
           written[i].path = outPathOf(featureFiles[k].path)

\* C14: a call that failed to read or to parse has written nothing; a call
\* writes at most once, and a write is there only when the call is through
\* with parsing, annotation and rendering: its data are the badge line and
\* the rendered text of the annotated document
C14_WriteAfterParse ==
  /\ convState \in {"IOError", "ParseError", "TypeError"} => written = <<>>
  /\ Len(written) <= 1
  /\ written # <<>> =>
       /\ convState = "done"
       /\ gherkinDocument.kind = "doc"
       /\ written[1].document = gherkinDocument.feature
       /\ written[1].data = latestBuildBadge \o markdown

\* a call that read the file and failed to parse it
C14_Witness ==
  /\ convState = "ParseError"
  /\ reads = <<featurePath>>
  /\ written = <<>>

\* C16 as stated: without a .feature file main writes nothing, returns
\* normally and logs a count of zero
C16_Original ==
  (mainState = "returned" /\ featureFiles = <<>>) =>
    /\ written = <<>>
    /\ \E i \in 1..Len(stdout) : Contains(stdout[i], "0")

\* C16: without a .feature file under the working directory main reads and
\* writes no file, logs the one line `No .feature-files found in <cwd>.`
\* (not the count line) and returns normally
C16_NoFilesMessage ==
  (mainState # "start" /\ findFeatureFiles(disk) = <<>>) =>
    /\ mainState = "returned"
    /\ exitCode = 0
    /\ reads = <<>>
    /\ written = <<>>
    /\ convState = "idle"
    /\ stderr = <<>>
    /\ stdout = <<"No .feature-files found in " \o Cwd \o ".">>

\* main has returned in a directory that holds a file, but no .feature file
C16_Witness ==
  /\ mainState = "returned"
  /\ Len(disk) = 1
  /\ featureFiles = <<>>
  /\ stdout = <<"No .feature-files found in /repo.">>

\* C15: when process.argv[2] is given and does not start with `http`, the
\* program has, once validateArgs is through, printed the error message and
\* exited with status 1, and it has searched, read, converted and written
\* nothing
C15_BadArgumentExitsFirst ==
  (/\ argv2.t = "string"
   /\ ~StartsAt(argv2.s, 1, "http")
   /\ mainState # "validateArgs")
  => /\ mainState = "exited"
     /\ exitCode = 1
     /\ stderr = <<"Badge service URL must start with http or https.">>
     /\ featureFiles = <<>>
     /\ reads = <<>>
     /\ written = <<>>
     /\ stdout = <<>>
     /\ warnings = <<>>

\* the program has exited on a bad argument in a directory with two
\* feature files
C15_Witness ==
  /\ argv2 = Str("ftp://badges")
  /\ mainState = "exited"
  /\ exitCode = 1
  /\ Len(findFeatureFiles(disk)) = 2

-----------------------------------------------------------------------------
(* Claims about the written text and the post-processing filters *)

\* a table row that does not start at column 0
IndentedTableRow(line) == isTableRow(line) /\ TrimStart(line) # line

\* C17 as stated: what convertFeatureToMarkdown writes is, behind the badge
\* line, the rendered text after filterOutComments and then
\* fixTableFormatting, and it has no Gherkin comment line and no indented
\* table row
C17_Original ==
  \A i \in 1..Len(written) :
    /\ written[i].data
         = written[i].prefix \o fixTableFormatting(filterOutComments(markdown))
    /\ \A body \in {SplitLines(SubSeq(written[i].data,
                                      Len(written[i].prefix) + 1,
                                      Len(written[i].data)))} :
         \A k \in 1..Len(body) :
           ~isComment(body[k]) /\ ~IndentedTableRow(body[k])

Last(seq) == seq[Len(seq)]

\* C18: a pass of filterOutComments that directly follows a pass of
\* filterOutComments leaves the text as it is
C18_CommentStrippingIdempotent ==
  [][(/\ passes # <<>>
      /\ Last(passes) = "filterOutComments"
      /\ passes' = Append(passes, "filterOutComments"))
     => filtered' = filtered]_vars

\* two passes of filterOutComments over a text with a comment line
C18_Witness ==
  /\ passes = <<"filterOutComments", "filterOutComments">>
  /\ filtered # markdown
  /\ filtered # ""

\* the line starts at column 0 with n times # and a space
HashesThenSpace(line, n) ==
  /\ Len(line) > n
  /\ \A i \in 1..n : CharAt(line, i) = "#"
  /\ CharAt(line, n + 1) = " "

\* a heading line: a first-level heading with a title of the renderer, or
\* a heading of the levels 2 to 6
HeadingLine(line) ==
  \E n \in 1..6 :
    /\ HashesThenSpace(line, n)
    /\ \/ n >= 2
       \/ \E title \in {"Feature:", "Rule:", "Background:", "Scenario:",
                        "Scenario Outline:", "Examples:"} :
            StartsAt(line, n + 2, title)

\* a comment-only line, indented or at column 0
CommentOnlyLine(line) ==
  StartsAt(TrimStart(line), 1, "#") /\ ~HeadingLine(line)

OtherLine(line) == ~CommentOnlyLine(line)

\* C19: a pass of filterOutComments keeps every heading line, leaves no
\* comment-only line, and keeps all other lines unchanged and in order
C19_KeepsHeadingsDropsComments ==
  [][passes' = Append(passes, "filterOutComments") =>
       \A before \in {SplitLines(filtered)}, after \in {SplitLines(filtered')} :
         /\ SelectSeq(after, HeadingLine) = SelectSeq(before, HeadingLine)
         /\ \A k \in 1..Len(after) : ~CommentOnlyLine(after[k])
         /\ filtered' = JoinLines(SelectSeq(before, OtherLine))]_vars

\* one pass over a text with a heading, a comment at column 0 and an
\* indented comment: the heading is what is left
C19_Witness ==
  /\ passes = <<"filterOutComments">>
  /\ markdown = "# note\n## Scenario: S\n  # note"
  /\ filtered = "## Scenario: S"

RECURSIVE CellsFrom(_, _, _)
\* the cells of a row from position i on: the texts between the pipes
CellsFrom(row, i, cur) ==
  IF i > Len(row) THEN <<cur>>
  ELSE IF CharAt(row, i) = "|"
  THEN <<cur>> \o CellsFrom(row, i + 1, "")
  ELSE CellsFrom(row, i + 1, cur \o CharAt(row, i))

RECURSIVE RowsOf(_)
\* the table rows among the lines, each as the sequence of its cells
RowsOf(lines) ==
  IF lines = <<>> THEN <<>>
  ELSE (IF isTableRow(Head(lines))
        THEN <<CellsFrom(Trim(Head(lines)), 1, "")>> ELSE <<>>)
       \o RowsOf(Tail(lines))

\* C20: a pass of fixTableFormatting that directly follows a pass of
\* fixTableFormatting leaves the text as it is, and every pass keeps the
\* rows and the cells of each row, in order and with their text
C20_TableFormattingIdempotent ==
  [][passes' = Append(passes, "fixTableFormatting") =>
       /\ RowsOf(SplitLines(filtered')) = RowsOf(SplitLines(filtered))
       /\ (passes # <<>> /\ Last(passes) = "fixTableFormatting")
            => filtered' = filtered]_vars

\* two passes of fixTableFormatting over a text with two tables, one of
\* them indented
C20_Witness ==
  /\ passes = <<"fixTableFormatting", "fixTableFormatting">>
  /\ markdown = "  | a | b |\n# note\n| c |"
  /\ filtered = "| a | b |\n\n# note\n| c |\n"

\* a line with at least one character
NonEmptyLine(line) == line # ""

\* the first and the last character of the line that is no white space are
\* both a pipe
PipeRow(line) ==
  \E t \in {Trim(line)} :
    Len(t) >= 1 /\ CharAt(t, 1) = "|" /\ CharAt(t, Len(t)) = "|"

\* the lines with every table row moved to column 0
UnindentRows(lines) ==
  [k \in 1..Len(lines) |->
     IF PipeRow(lines[k]) THEN TrimStart(lines[k]) ELSE lines[k]]

\* C21: after a pass of fixTableFormatting every table row starts at
\* column 0, and the lines of the text are those before the pass, in order,
\* the table rows without their indentation and every other line, a line
\* with pipe characters inside its text included, character for character
\* as it was (empty lines apart, which the pass may add or take away)
C21_OnlyRowsLoseIndentation ==
  [][passes' = Append(passes, "fixTableFormatting") =>
       \A before \in {SplitLines(filtered)}, after \in {SplitLines(filtered')} :
         /\ \A k \in 1..Len(after) :
              PipeRow(after[k]) => CharAt(after[k], 1) = "|"
         /\ SelectSeq(after, NonEmptyLine)
              = SelectSeq(UnindentRows(before), NonEmptyLine)]_vars

\* one pass over an indented line with pipes in its text and an indented
\* table row: the row has moved to column 0, the other line has not
C21_Witness ==
  /\ passes = <<"fixTableFormatting">>
  /\ markdown = "  see \"x|y\"\n  | a | b |"
  /\ filtered = "  see \"x|y\"\n| a | b |\n"

\* the positions of the table rows among the lines, in order
RowPositions(lines) ==
  SelectSeq([k \in 1..Len(lines) |-> k], LAMBDA k : PipeRow(lines[k]))

\* line k is the last row of a table that a line with content follows
\* directly, or that ends the text
TableEndsAt(lines, k) ==
  /\ PipeRow(lines[k])
  /\ \/ k = Len(lines)
     \/ ~PipeRow(lines[k + 1]) /\ Trim(lines[k + 1]) # ""

\* line k is followed by one blank line and no second one
OneBlankLineAfter(lines, k) ==
  /\ k < Len(lines)
  /\ lines[k + 1] = ""
  /\ k + 2 <= Len(lines) => Trim(lines[k + 2]) # ""

\* C22: after a pass of fixTableFormatting, the last row of every table
\* that a content line followed directly, or that ended the text, is
\* followed by exactly one blank line (at the end of the text: the row is
\* closed by one newline), and the text has no three newline characters
\* in a row
C22_OneBlankLineAfterTable ==
  [][passes' = Append(passes, "fixTableFormatting") =>
       /\ \A before \in {SplitLines(filtered)},
            after \in {SplitLines(filtered')} :
            \A rowsBefore \in {RowPositions(before)},
               rowsAfter \in {RowPositions(after)} :
              /\ Len(rowsAfter) = Len(rowsBefore)
              /\ \A j \in 1..Len(rowsBefore) :
                   TableEndsAt(before, rowsBefore[j])
                     => OneBlankLineAfter(after, rowsAfter[j])
       /\ ~Contains(filtered', "\n\n\n")]_vars

\* one pass over a step, two blank lines and a table that ends the text:
\* one blank line is left before the table and the table is closed
C22_Witness ==
  /\ passes = <<"fixTableFormatting">>
  /\ markdown = "* Given \"x|y\"\n\n\n| c |"
  /\ filtered = "* Given \"x|y\"\n\n| c |\n"

-----------------------------------------------------------------------------
(* Claims about the tags of one document *)

\* the number of places at which p occurs in s
Occurrences(s, p) ==
  Cardinality({i \in 1..(Len(s) - Len(p) + 1) : StartsAt(s, i, p)})

\* the names the annotation step writes: the feature's, those of the
\* scenarios and outlines under it, and those under its rules
TaggedNames(feature) ==
  {feature.name}
  \cup {feature.children[i].node.name :
          i \in {k \in 1..Len(feature.children) :
                   feature.children[k].kind = "scenario"}}
  \cup UNION {{feature.children[i].node.children[j].node.name :
                 j \in {k \in 1..Len(feature.children[i].node.children) :
                          feature.children[i].node.children[k].kind
                            = "scenario"}} :
              i \in {k \in 1..Len(feature.children) :
                       feature.children[k].kind = "rule"}}

\* the name is one tag, with the feature name fName in its data-feature
\* attribute and no tag inside it
OneTagOf(name, fName) ==
  /\ StartsAt(name, 1, "<span class=\"bdd-badge-")
  /\ EndsWith(name, "</span>")
  /\ Occurrences(name, "<span") = 1
  /\ Occurrences(name, "</span>") = 1
  /\ Occurrences(name, "data-feature=") = 1
  /\ Contains(name, " data-feature=\"" \o fName \o "\"")

-----------------------------------------------------------------------------
(* Claims about repeated runs of the rewriter and the text it leaves alone *)

\* C26 as stated: a run of replaceFeatureReferences on a file that a run
\* has worked on before changes nothing: the content stays, nothing is
\* written and nothing is logged
C26_Original ==
  [][(mdRuns >= 1 /\ mdRuns' = mdRuns + 1)
       => (mdContent' = mdContent /\ mdWrites' = mdWrites
           /\ stdout' = stdout)]_vars

\* every `.feature` of the text is directly followed by a word character
\* (so no token of the text ends in `.feature`); true of a text with no
\* `.feature` in it
EveryFeatureInsideWord(text) ==
  \A i \in 1..Len(text) :
    StartsAt(text, i, ".feature") =>
      /\ i + Len(".feature") <= Len(text)
      /\ CharAt(text, i + Len(".feature")) \in WordChars

\* C27 as stated: a file in which every `.feature` is directly followed by
\* further word characters, or that has no `.feature` at all, is left as it
\* is, whatever the number of runs
C27_Original ==
  EveryFeatureInsideWord(mdOriginal) =>
    (mdContent = mdOriginal /\ mdWrites = 0)

-----------------------------------------------------------------------------
(* Claims about loading the module *)

\* C28 as stated: a module that is imported does not start main: no
\* directory scan, no read, no write follows the import
C28_Original ==
  [][mainState = "imported" =>
       (mainState' = "imported" /\ featureFiles' = featureFiles
        /\ reads' = reads /\ written' = written)]_vars

-----------------------------------------------------------------------------
(* Claims about the documents convertFeatureToMarkdown takes *)

\* C29 as stated: for every document the parser accepts, with or without a
\* feature, with a Background under the feature or under a rule, a call of
\* convertFeatureToMarkdown for a file in an existing directory ends
\* without an exception and has written one file
C29_Original ==
  (/\ convState \notin {"idle", "ready"}
   /\ parsed.kind \in {"doc", "empty"}
   /\ featurePath = PlainPath)
    => (convState = "done" /\ Len(written) = 1)

\* C30 as stated: no file convertFeatureToMarkdown has written has a path
\* that ends in `.feature` (a path findFeatureFiles would take for an
\* input on the next run) or that is the path of the file it read
C30_Original ==
  \A w \in 1..Len(written) :
    /\ ~EndsWith(written[w].path, ".feature")
    /\ \A r \in 1..Len(reads) : written[w].path # reads[r]

-----------------------------------------------------------------------------
(* Claims about the bdd-badge variant *)

\* C23 as stated: for a feature name F that is given, getBadgeTag(F) is
\* ` <span class="bdd-badge" data-feature="F"></span>` and getBadgeTag(F, S)
\* is ` <span class="bdd-badge" data-feature="F" data-scenario="S"></span>`,
\* each with one space in front
C23_Original ==
  (tagResult.called /\ ~Falsy(featureName)) =>
    IF Falsy(scenarioName)
    THEN tagResult.value
           = " <span class=\"bdd-badge\" data-feature=\"" \o featureName.s
             \o "\"></span>"
    ELSE tagResult.value
           = " <span class=\"bdd-badge\" data-feature=\"" \o featureName.s
             \o "\" data-scenario=\"" \o scenarioName.s \o "\"></span>"

\* the scenarios of the rules of a feature, each with the position of its
\* rule and its position under the rule
ScenariosUnderRules(feature) ==
  {<<i, j>> \in (1..Len(feature.children)) \X (1..MaxRuleChildren + 1) :
     /\ feature.children[i].kind = "rule"
     /\ j <= Len(feature.children[i].node.children)
     /\ feature.children[i].node.children[j].kind = "scenario"}

\* C24 as stated: in every document that was written, the name of a
\* scenario under a rule is its name as parsed followed by a badge with
\* data-feature="F" data-scenario="S", F the feature name and S the
\* name of that scenario (both given)
C24_Original ==
  \A w \in 1..Len(written) :
    \A ij \in ScenariosUnderRules(parsed.feature) :
      \A before \in {parsed.feature.children[ij[1]].node.children[ij[2]]},
         after \in {written[w].document.children[ij[1]].node.children[ij[2]]} :
        (parsed.feature.name # "" /\ before.node.name # "") =>
          /\ StartsAt(after.node.name, 1, before.node.name)
          /\ Contains(after.node.name,
                      "data-feature=\"" \o parsed.feature.name
                      \o "\" data-scenario=\"" \o before.node.name \o "\"")

====
